---- MODULE Spec2Model ----
(***************************************************************************)
(* Verification model of the personal-finance-kit client.                  *)
(*                                                                         *)
(* Part 1: the provisioning routine runLoginCheck (lib/login-check.ts) in   *)
(* its two versions found in the repository, over the backend tables it    *)
(* reads and writes through lib/db (user preference, accounts,             *)
(* categories).  Every await of the routine is one step, so that backend   *)
(* failures, an abandoned run, user deletions and a second invocation can  *)
(* fall between any two calls.                                             *)
(*                                                                         *)
(* Rows are kept as sets: the order in which listAccounts/listCategories   *)
(* return rows (created_at descending) is not represented.  A row id       *)
(* generated by the backend is modelled as <<run, call site>>, which is    *)
(* unique for every insert, as a generated uuid is.                        *)
(***************************************************************************)
EXTENDS Integers, Sequences, FiniteSets, TLC

\* ------------------------------------------------------------------ bounds
MaxRuns     == 2   \* invocations of runLoginCheck in one behaviour
MaxFaults   == 1   \* backend errors and abandoned runs in one behaviour
MaxDeletes  == 1   \* accounts the user deletes in one behaviour
MaxTx       == 2   \* transaction rows the backend holds before the first fetch
MaxAmount   == 1   \* largest amount of such a row
MaxSubmits  == 2   \* submits of the write screens in one behaviour
MaxFetches  == 2   \* reporting fetches issued while others are in flight
MaxRemovals == 2   \* calls of the delete functions of lib/db in one behaviour

\* Invocations of runLoginCheck that can be in flight together: its two
\* callers, the root layout's init() on a cold start and useAuthStore.login().
Procs == {1, 2}

\* ------------------------------------------------------- configuration
\* The two versions of lib/login-check.ts.
Impls == {"core", "extended"}

NullId == <<>>

DEFAULT_CATEGORIES_core ==
  << <<"Food", "EXPENSE">>, <<"Transport", "EXPENSE">>, <<"Shopping", "EXPENSE">>,
     <<"Bills", "EXPENSE">>, <<"Other", "EXPENSE">>, <<"Salary", "INCOME">>,
     <<"Freelance", "INCOME">>, <<"Other", "INCOME">> >>

DEFAULT_CATEGORIES_extended ==
  << <<"Food", "EXPENSE">>, <<"Groceries", "EXPENSE">>, <<"Transport", "EXPENSE">>,
     <<"Fuel", "EXPENSE">>, <<"Shopping", "EXPENSE">>, <<"Health", "EXPENSE">>,
     <<"Bills", "EXPENSE">>, <<"Subscriptions", "EXPENSE">>, <<"Education", "EXPENSE">>,
     <<"Family", "EXPENSE">>, <<"Travel", "EXPENSE">>, <<"Entertainment", "EXPENSE">>,
     <<"Gifts", "EXPENSE">>, <<"Personal Care", "EXPENSE">>, <<"Rent", "EXPENSE">>,
     <<"Other", "EXPENSE">>,
     <<"Salary", "INCOME">>, <<"Freelance", "INCOME">>, <<"Investments", "INCOME">>,
     <<"Business", "INCOME">>, <<"Refund", "INCOME">>, <<"Gift", "INCOME">>,
     <<"Rental Income", "INCOME">>, <<"Interest", "INCOME">>, <<"Rewards", "INCOME">>,
     <<"Other", "INCOME">> >>

DEFAULT_CATEGORIES(i) ==
  IF i = "core" THEN DEFAULT_CATEGORIES_core ELSE DEFAULT_CATEGORIES_extended

\* The accounts the not-migrated branch creates, in program order.  The
\* first is assigned to default_income_account_id, the second to
\* default_expense_account_id.
DefaultAccounts(i) ==
  IF i = "core"
    THEN << <<"Income", "CASH">>, <<"Cash", "CASH">> >>
    ELSE << <<"Income", "CASH">>, <<"Expense", "CASH">>,
            <<"Cash", "CASH">>, <<"Bank", "BANK">> >>

\* The replacement accounts the migrated branch of the core version creates.
HealAccounts == << <<"Income", "CASH">>, <<"Cash", "CASH">> >>

\* ------------------------------------------------------------------ state
VARIABLES
  impl,        \* which version of login-check.ts the client is built with
  mode,        \* "seq": one invocation at a time; "conc": overlapping ones
  prefs,       \* table myio_user_preferences (at most one row of the user)
  accounts,    \* table myio_accounts
  categories,  \* table myio_categories
  pc,          \* position of each invocation
  loc,         \* locals of each invocation
  result,      \* LoginCheckResult of each finished invocation
  hist,        \* per invocation: what it has done (observation only)
  last,        \* the previous finished invocation (observation only)
  runs, faults, deletes,
  addImpl,     \* which version of app/(tabs)/add.tsx the client is built with
  transactions,\* table myio_transactions, rows in insertion order
  allCategories,\* useCategoriesStore: the category reference list
  txData,      \* the array the last reporting fetch received, as it left it
  report,      \* useReportingStore
  sub,         \* the last submit of a write screen (observation only)
  session,     \* useAuthStore: whether a session is held
  screen,      \* the route the router shows
  caller,      \* who awaits the invocation of runLoginCheck in flight
  home,        \* what the home screen's first load found (observation only)
  pending,     \* reporting fetches whose listTransactions is in flight
  deleted_records, \* table myio_deleted_records
  activity_logs,   \* table myio_activity_logs: the entries of deletions
  del          \* the delete call of lib/db in progress, or the last one

\* The state of the ledger screens and the reporting store.
ledger == <<addImpl, transactions, allCategories, txData, report, sub>>

\* The session, the router and the requests in flight.
app == <<session, screen, caller, home, pending>>

\* The recycle bin, the audit log and the delete call.
bin == <<deleted_records, activity_logs, del>>

vars == <<impl, mode, prefs, accounts, categories, pc, loc, result, hist, last,
          runs, faults, deletes, ledger, app, bin>>

db == [prefs |-> prefs, accounts |-> accounts, categories |-> categories]

\* --------------------------------------------------------------- rows
AccountRow(id, name, type) ==
  [id |-> id, name |-> name, type |-> type,
   opening_balance |-> 0, balance |-> 0, is_active |-> TRUE]

\* CategoryRow that stores every category as an expense category.
CategoryRowUntyped(id, name, type) == [id |-> id, name |-> name, type |-> "EXPENSE"]

CategoryRow(id, name, type) == [id |-> id, name |-> name, type |-> type]

PreferenceRow(inc, exp, mig) ==
  [default_income_account_id |-> inc, default_expense_account_id |-> exp,
   migration_completed |-> mig]

Ids(rows) == {r.id : r \in rows}

\* Whether a backend call may return an error at this point.  Overlapping
\* invocations are explored without backend errors.
FailChoices ==
  IF mode = "seq" /\ faults < MaxFaults THEN {FALSE, TRUE} ELSE {FALSE}

\* insertAccount preceded by a look-up of an account of the same name.
insertAccountIfAbsent(rows, row) ==
  IF \E a \in rows : a.name = row.name THEN rows ELSE rows \cup {row}

\* createAccount's insert: the table with the new row.
insertAccount(rows, row) == rows \cup {row}

\* findAccount: the row with that id, or none.
findAccount(id) == {a \in accounts : a.id = id}

\* updateUserPreference applied to the table: the patched row when a row
\* exists.
PatchPrefs(patch) ==
  {[f \in DOMAIN r |-> IF f \in DOMAIN patch THEN patch[f] ELSE r[f]] : r \in prefs}

\* ------------------------------------------------- the ledger: rows
\* The two versions of app/(tabs)/add.tsx: "legs" writes the two TRANSFER
\* rows of a transfer, "plain" writes the CONTRA row only.
AddImpls == {"legs", "plain"}

EntryTypes == {"INCOME", "EXPENSES", "ADJUST", "CONTRA"}

\* A row of myio_transactions.  transaction_date is a day number.
TransactionRow(id, from, to, cat, amount, date, type, by) ==
  [id |-> id, from_account_id |-> from, to_account_id |-> to,
   category_id |-> cat, amount |-> amount, transaction_date |-> date,
   entry_type |-> type, added_by |-> by]

\* initialState of useReportingStore.  periodLabel is <<>> for "" and
\* <<m>> for the label of month m.
initialState ==
  [topCategories |-> <<>>, topAccounts |-> <<>>, commonAmounts |-> <<>>,
   categoriesBalance |-> {}, accountsBalance |-> {},
   totalBalance |-> 0, incomeTotal |-> 0, expenseTotal |-> 0,
   recentTransactions |-> <<>>, categorySpendingSummary |-> <<>>,
   categoryIncomeSummary |-> <<>>, periodLabel |-> <<>>]

\* What a reporting fetch holds in `transactions` once it is over.
NoData == [ok |-> FALSE, fetched |-> <<>>, data |-> <<>>, accs |-> {}]

NoSubmit ==
  [n |-> 0, kind |-> "none", before |-> 0, failed |-> FALSE,
   type |-> "none", from |-> NullId, to |-> NullId, amount |-> 0]

\* The home screen has not loaded yet.
NoHome == [loaded |-> FALSE, migrated |-> FALSE, defaults |-> FALSE,
           checked |-> FALSE]

\* No reporting fetch issued yet.  queue: the requests whose answer has
\* not arrived, each with the rows the backend read for it; issued: how
\* many were issued; last: the number of the one that last set the store;
\* stale: whether a request issued before that one has set the store since.
NoPending == [queue |-> <<>>, issued |-> 0, last |-> 0, stale |-> FALSE]

\* The app before its root layout has run, with or without a stored session.
\* No delete call made yet.  issued, logFailed and before are kept for
\* observation: whether the delete request was sent, whether the audit-log
\* insert failed, and the table as it was when the call was made.
NoDelete ==
  [n |-> 0, pc |-> "idle", table |-> "none", id |-> NullId, row |-> {},
   error |-> "none", issued |-> FALSE, logFailed |-> FALSE, before |-> {}]

EmptyBin ==
  /\ deleted_records = {}
  /\ activity_logs = {}
  /\ del = NoDelete

InitApp ==
  /\ session \in BOOLEAN
  /\ screen = "splash"
  /\ caller = "none"
  /\ home = NoHome
  /\ pending = NoPending
  /\ EmptyBin

\* ------------------------------------------------------------ locals
NoResult == [ok |-> FALSE, error |-> "none", preference |-> {},
             accounts |-> {}, categories |-> {}]

Failure(e) == [ok |-> FALSE, error |-> e, preference |-> {},
               accounts |-> {}, categories |-> {}]

Success(p, a, c) == [ok |-> TRUE, error |-> "none", preference |-> p,
                     accounts |-> a, categories |-> c]

InitLoc ==
  [run |-> 0, preference |-> {}, incomeId |-> NullId, expenseId |-> NullId,
   updated |-> FALSE, created |-> <<>>, catIdx |-> 1]

InitHist ==
  [run |-> 0, branch |-> "none", writes |-> 0, failed |-> FALSE,
   accFailed |-> FALSE,
   start |-> [prefs |-> {}, accounts |-> {}, categories |-> {}],
   newAccounts |-> {}, newCategories |-> {},
   prev |-> [valid |-> FALSE, clean |-> FALSE, nAcc |-> 0, nCat |-> 0]]

NoLast == [valid |-> FALSE, clean |-> FALSE, nAcc |-> 0, nCat |-> 0]

Init ==
  /\ impl \in Impls
  /\ mode \in {"seq", "conc"}
  /\ prefs = {}
  /\ accounts = {}
  /\ categories = {}
  /\ pc = [p \in Procs |-> "idle"]
  /\ loc = [p \in Procs |-> InitLoc]
  /\ result = [p \in Procs |-> NoResult]
  /\ hist = [p \in Procs |-> InitHist]
  /\ last = NoLast
  /\ runs = 0 /\ faults = 0 /\ deletes = 0
  /\ addImpl = "legs"
  /\ transactions = <<>>
  /\ allCategories = <<>>
  /\ txData = NoData
  /\ report = initialState
  /\ sub = NoSubmit
  /\ session = FALSE /\ screen = "onboarding" /\ caller = "none"
  /\ home = NoHome /\ pending = NoPending
  /\ EmptyBin

InitSeq == Init /\ mode = "seq"

InitConc == Init /\ mode = "conc" /\ impl = "core"

\* ----------------------------------------------------------- helpers
Quiescent == \A q \in Procs : pc[q] \in {"idle", "done"}

ThePref(s) == CHOOSE r \in s : TRUE

Goto(p, l, newloc) ==
  /\ pc' = [pc EXCEPT ![p] = l]
  /\ loc' = [loc EXCEPT ![p] = newloc]
  /\ UNCHANGED <<result, last>>

\* The invocation returns res to its caller.
Return(p, res) ==
  /\ pc' = [pc EXCEPT ![p] = "done"]
  /\ loc' = [loc EXCEPT ![p] = InitLoc]
  /\ result' = [result EXCEPT ![p] = res]
  /\ last' = [valid |-> \A q \in Procs \ {p} : pc[q] \in {"idle", "done"},
              clean |-> ~hist'[p].failed,
              nAcc |-> Cardinality(accounts'),
              nCat |-> Cardinality(categories')]

Counted(fail) == faults' = IF fail THEN faults + 1 ELSE faults

NoteFail(h, fail) == [h EXCEPT !.failed = h.failed \/ fail]

NoteWrite(h, fail) ==
  [h EXCEPT !.failed = h.failed \/ fail, !.writes = h.writes + 1]

\* ------------------------------------------------ callers, environment
\* Start behind a lock: no invocation while another is in flight.
StartExclusive(p) ==
  /\ pc[p] \in {"idle", "done"}
  /\ runs < MaxRuns
  /\ Quiescent
  /\ \A q \in Procs : q < p => pc[q] \notin {"idle", "done"}
  /\ runs' = runs + 1
  /\ pc' = [pc EXCEPT ![p] = "findPref"]
  /\ loc' = [loc EXCEPT ![p] = [InitLoc EXCEPT !.run = runs + 1]]
  /\ result' = [result EXCEPT ![p] = NoResult]
  /\ hist' = [hist EXCEPT ![p] = [InitHist EXCEPT !.run = runs + 1,
                                                   !.start = db, !.prev = last]]
  /\ last' = NoLast
  /\ UNCHANGED <<bin, app, ledger, impl, mode, prefs, accounts, categories, faults, deletes>>

\* A caller invokes runLoginCheck(userId); the invocation takes the first
\* free slot.  login() calls it whether or not a preference row exists.
Start(p) ==
  /\ pc[p] \in {"idle", "done"}
  /\ runs < MaxRuns
  /\ mode = "seq" => Quiescent
  /\ \A q \in Procs : q < p => pc[q] \notin {"idle", "done"}
  /\ runs' = runs + 1
  /\ pc' = [pc EXCEPT ![p] = "findPref"]
  /\ loc' = [loc EXCEPT ![p] = [InitLoc EXCEPT !.run = runs + 1]]
  /\ result' = [result EXCEPT ![p] = NoResult]
  /\ hist' = [hist EXCEPT ![p] = [InitHist EXCEPT !.run = runs + 1,
                                                   !.start = db, !.prev = last]]
  /\ last' = NoLast
  /\ UNCHANGED <<bin, app, ledger, impl, mode, prefs, accounts, categories, faults, deletes>>

\* The app is killed (or the screen unmounted) between two awaits of a run.
Crash(p) ==
  /\ pc[p] \notin {"idle", "done"}
  /\ faults < MaxFaults
  /\ faults' = faults + 1
  /\ pc' = [pc EXCEPT ![p] = "idle"]
  /\ loc' = [loc EXCEPT ![p] = InitLoc]
  /\ hist' = [hist EXCEPT ![p] = InitHist]
  /\ last' = NoLast
  /\ UNCHANGED <<bin, app, ledger, impl, mode, prefs, accounts, categories, result, runs, deletes>>

\* handleSave writing the row whether or not one exists.
handleSaveUpsert ==
  /\ Quiescent
  /\ \E fail \in FailChoices :
       /\ Counted(fail)
       /\ IF ~fail
            THEN /\ prefs' = {PreferenceRow(NullId, NullId, FALSE)}
                 /\ last' = NoLast
            ELSE UNCHANGED <<prefs, last>>
       /\ screen' = IF fail THEN screen ELSE "tabs"
  /\ UNCHANGED <<session, caller, home, pending>>
  /\ UNCHANGED <<bin, ledger, impl, mode, accounts, categories, pc, loc, result, hist,
                 runs, deletes>>

\* The preferences screen's Save: creates the row when none exists; the
\* update of an existing row touches default_currency, theme and language
\* only, none of which is represented.  Without an error the router
\* replaces the route by the tabs.
handleSave ==
  /\ Quiescent
  /\ \E fail \in FailChoices :
       /\ Counted(fail)
       /\ IF ~fail /\ prefs = {}
            THEN /\ prefs' = {PreferenceRow(NullId, NullId, FALSE)}
                 /\ last' = NoLast
            ELSE UNCHANGED <<prefs, last>>
       /\ screen' = IF fail THEN screen ELSE "tabs"
  /\ UNCHANGED <<session, caller, home, pending>>
  /\ UNCHANGED <<bin, ledger, impl, mode, accounts, categories, pc, loc, result, hist,
                 runs, deletes>>

\* The accounts the preference row's default pointers reference.
DefaultAccountsOf(ps) ==
  {a \in accounts : \E r \in ps : a.id \in {r.default_income_account_id,
                                              r.default_expense_account_id}}

\* The edit-account screen's Delete: removes the account row.  Of the
\* user's deletions, those of a default account are represented.
deleteAccount ==
  /\ Quiescent
  /\ deletes < MaxDeletes
  /\ \E a \in DefaultAccountsOf(prefs) :
       /\ accounts' = accounts \ {a}
       /\ deletes' = deletes + 1
       /\ last' = NoLast
  /\ UNCHANGED <<bin, app, ledger, impl, mode, prefs, categories, pc, loc, result, hist,
                 runs, faults>>

\* ------------------------------------------------------ runLoginCheck
\* Where the migrated branch of the core version continues.
AfterIncome(l) == IF l.expenseId # NullId THEN "findExpense" ELSE "afterHeal"

AfterHeal(l) ==
  LET pr == ThePref(l.preference) IN
  IF l.updated /\ (l.incomeId # pr.default_income_account_id
                   \/ l.expenseId # pr.default_expense_account_id)
    THEN "updatePointers" ELSE "refetch"

Resolve(l, label) == IF label = "afterHeal" THEN AfterHeal(l) ELSE label

\* const prefRes = await findUserPreference(userId), and the branch taken.
FindPref(p) ==
  /\ pc[p] = "findPref"
  /\ UNCHANGED <<bin, app, ledger, impl, mode, prefs, accounts, categories, runs, deletes>>
  /\ \E fail \in FailChoices :
       /\ Counted(fail)
       /\ IF fail
            THEN /\ hist' = [hist EXCEPT ![p] = NoteFail(@, TRUE)]
                 /\ Return(p, Failure("backend"))
          ELSE IF prefs = {} /\ impl = "core"
            THEN /\ hist' = [hist EXCEPT ![p].branch = "nopref"]
                 /\ Return(p, Failure("No preference"))
          ELSE IF prefs # {} /\ ThePref(prefs).migration_completed
            THEN /\ hist' = [hist EXCEPT ![p].branch = "migrated"]
                 /\ IF impl = "core"
                      THEN LET pr == ThePref(prefs)
                               l == [loc[p] EXCEPT
                                       !.preference = prefs,
                                       !.incomeId = pr.default_income_account_id,
                                       !.expenseId = pr.default_expense_account_id]
                           IN Goto(p, IF l.incomeId # NullId THEN "findIncome"
                                      ELSE Resolve(l, AfterIncome(l)), l)
                      ELSE Return(p, Success(prefs, {}, {}))
          ELSE /\ hist' = [hist EXCEPT ![p].branch = "migrate"]
               /\ Goto(p, "createAccount", [loc[p] EXCEPT !.preference = prefs])

\* const { data: acc } = await findAccount(userId, id): the error is
\* dropped, so a failed lookup reads as "no such account".
HealFind(p, at, id, found, missing) ==
  /\ pc[p] = at
  /\ UNCHANGED <<bin, app, ledger, impl, mode, prefs, accounts, categories, runs, deletes>>
  /\ \E fail \in FailChoices :
       /\ Counted(fail)
       /\ hist' = [hist EXCEPT ![p] = NoteFail(@, fail)]
       /\ LET acc == IF fail THEN {} ELSE findAccount(id)
          IN Goto(p, IF acc # {} THEN Resolve(loc[p], found) ELSE missing, loc[p])

\* const { data: newAcc } = await createAccount(...); id = newAcc?.id ?? null;
\* updated = true.
HealCreate(p, at, field, k) ==
  /\ pc[p] = at
  /\ UNCHANGED <<bin, app, ledger, impl, mode, prefs, categories, runs, deletes>>
  /\ \E fail \in FailChoices :
       /\ Counted(fail)
       /\ LET id == <<loc[p].run, k>>
              newId == IF fail THEN NullId ELSE id
              l == [loc[p] EXCEPT ![field] = newId, !.updated = TRUE]
          IN /\ accounts' = IF fail THEN accounts
                            ELSE insertAccount(accounts,
                                   AccountRow(id, HealAccounts[k][1], HealAccounts[k][2]))
             /\ hist' = [hist EXCEPT ![p] =
                          [NoteWrite(@, fail) EXCEPT
                             !.newAccounts = IF fail THEN @ ELSE @ \cup {id}]]
             /\ Goto(p, IF k = 1 THEN Resolve(l, AfterIncome(l)) ELSE AfterHeal(l), l)

HealIncomeFind(p) ==
  HealFind(p, "findIncome", loc[p].incomeId, AfterIncome(loc[p]), "createIncome")

HealIncomeCreate(p) == HealCreate(p, "createIncome", "incomeId", 1)

HealExpenseFind(p) ==
  HealFind(p, "findExpense", loc[p].expenseId, "afterHeal", "createExpense")

HealExpenseCreate(p) == HealCreate(p, "createExpense", "expenseId", 2)

\* await updateUserPreference(userId, {default_income_account_id,
\* default_expense_account_id}); its result is not looked at.
HealUpdatePointers(p) ==
  /\ pc[p] = "updatePointers"
  /\ UNCHANGED <<bin, app, ledger, impl, mode, accounts, categories, runs, deletes>>
  /\ \E fail \in FailChoices :
       /\ Counted(fail)
       /\ hist' = [hist EXCEPT ![p] = NoteWrite(@, fail)]
       /\ prefs' = IF fail THEN prefs
                   ELSE PatchPrefs([default_income_account_id |-> loc[p].incomeId,
                                    default_expense_account_id |-> loc[p].expenseId])
  /\ Goto(p, "refetch", loc[p])

\* CreateFailed testing the income account only.
CreateFailedIncomeOnly(cr) == cr[1] = NullId

\* if (!incomeAccount || !expenseAccount [|| !cashAccount || !bankAccount])
CreateFailed(cr) == \E j \in 1..Len(cr) : cr[j] = NullId

\* The createAccount calls of the not-migrated branch, one per step, and
\* after the last one the test `if (!incomeAccount || !expenseAccount ...)`.
MigrateCreateAccount(p) ==
  /\ pc[p] = "createAccount"
  /\ UNCHANGED <<bin, app, ledger, impl, mode, prefs, categories, runs, deletes>>
  /\ \E fail \in FailChoices :
       /\ Counted(fail)
       /\ LET k == Len(loc[p].created) + 1
              id == <<loc[p].run, k>>
              da == DefaultAccounts(impl)
              cr == Append(loc[p].created, IF fail THEN NullId ELSE id)
              l == [loc[p] EXCEPT !.created = cr]
          IN /\ accounts' = IF fail THEN accounts
                            ELSE insertAccount(accounts, AccountRow(id, da[k][1], da[k][2]))
             /\ hist' = [hist EXCEPT ![p] =
                          [NoteWrite(@, fail) EXCEPT
                             !.accFailed = @ \/ fail,
                             !.newAccounts = IF fail THEN @ ELSE @ \cup {id}]]
             /\ IF k < Len(da) THEN Goto(p, "createAccount", l)
                ELSE IF CreateFailed(cr)
                  THEN Return(p, Failure("Failed to create default accounts"))
                ELSE Goto(p, "createCategory", l)

\* for (const c of DEFAULT_CATEGORIES) await createCategory(...): the
\* result of each call is not looked at.
MigrateCreateCategory(p) ==
  /\ pc[p] = "createCategory"
  /\ UNCHANGED <<bin, app, ledger, impl, mode, prefs, accounts, runs, deletes>>
  /\ \E fail \in FailChoices :
       /\ Counted(fail)
       /\ LET i == loc[p].catIdx
              id == <<loc[p].run, i>>
              dc == DEFAULT_CATEGORIES(impl)
          IN /\ categories' = IF fail THEN categories
                              ELSE categories \cup {CategoryRow(id, dc[i][1], dc[i][2])}
             /\ hist' = [hist EXCEPT ![p] =
                          [NoteWrite(@, fail) EXCEPT
                             !.newCategories = IF fail THEN @ ELSE @ \cup {id}]]
             /\ Goto(p, IF i < Len(dc) THEN "createCategory" ELSE "setMigrated",
                     [loc[p] EXCEPT !.catIdx = i + 1])

\* MigratedPatch with the income account stored in both pointers.
MigratedPatchSameAccount(created) ==
  [default_income_account_id |-> created[1],
   default_expense_account_id |-> created[1],
   migration_completed |-> TRUE]

\* The payload of the not-migrated branch's updateUserPreference.
MigratedPatch(created) ==
  [default_income_account_id |-> created[1],
   default_expense_account_id |-> created[2],
   migration_completed |-> TRUE]

\* const updateRes = await updateUserPreference(userId, {..., migration_completed:
\* true}); if (updateRes.error) return { ok: false, ... }.
MigrateSetCompleted(p) ==
  /\ pc[p] = "setMigrated"
  /\ UNCHANGED <<bin, app, ledger, impl, mode, accounts, categories, runs, deletes>>
  /\ \E fail \in FailChoices :
       /\ Counted(fail)
       /\ hist' = [hist EXCEPT ![p] = NoteWrite(@, fail)]
       /\ IF fail
            THEN /\ prefs' = prefs
                 /\ Return(p, Failure("backend"))
          ELSE IF prefs = {}
            THEN /\ prefs' = prefs
                 /\ Return(p, Failure("User preference not found"))
          ELSE /\ prefs' = PatchPrefs(MigratedPatch(loc[p].created))
               /\ Goto(p, "refetch", loc[p])

\* refetch: Promise.all([findUserPreference, listAccounts, listCategories])
\* and the tests on the three answers; fp, fa, fc say which read failed.
refetchResult(fp, fa, fc) ==
  IF fp \/ prefs = {} THEN Failure(IF fp THEN "backend" ELSE "No preference")
  ELSE IF fa THEN Failure("backend")
  ELSE IF fc THEN Failure("backend")
  ELSE Success(prefs, accounts, categories)

\* const data = await refetch(userId); return { ok: true, ...data } or the
\* error.
refetch(p) ==
  /\ pc[p] = "refetch"
  /\ UNCHANGED <<bin, app, ledger, impl, mode, prefs, accounts, categories, runs, deletes>>
  /\ \E fp, fa, fc \in BOOLEAN :
       LET n == (IF fp THEN 1 ELSE 0) + (IF fa THEN 1 ELSE 0) + (IF fc THEN 1 ELSE 0)
       IN /\ n > 0 => TRUE \in FailChoices
          /\ faults + n <= MaxFaults
          /\ faults' = faults + n
          /\ hist' = [hist EXCEPT ![p] = NoteFail(@, n > 0)]
          /\ Return(p, refetchResult(fp, fa, fc))

runLoginCheck(p) ==
  \/ FindPref(p)
  \/ HealIncomeFind(p)
  \/ HealIncomeCreate(p)
  \/ HealExpenseFind(p)
  \/ HealExpenseCreate(p)
  \/ HealUpdatePointers(p)
  \/ MigrateCreateAccount(p)
  \/ MigrateCreateCategory(p)
  \/ MigrateSetCompleted(p)
  \/ refetch(p)

Next ==
  \/ \E p \in Procs : Start(p)
  \/ \E p \in Procs : runLoginCheck(p)
  \/ \E p \in Procs : Crash(p)
  \/ handleSave
  \/ deleteAccount

\* Invocations one at a time, with backend errors, abandoned runs and
\* deletions between them.
Spec == InitSeq /\ [][Next]_vars

NextConc ==
  \/ \E p \in Procs : Start(p)
  \/ \E p \in Procs : runLoginCheck(p)
  \/ handleSave
  \/ deleteAccount

\* Overlapping invocations of the core version.
SpecConc == InitConc /\ [][NextConc]_vars

TypeOK ==
  /\ impl \in Impls
  /\ Cardinality(prefs) <= 1
  /\ runs \in 0..MaxRuns

\* ------------------------------------------------ reporting: helpers
RECURSIVE Sum(_)
\* reduce((acc, x) => acc + x, 0)
Sum(s) == IF s = <<>> THEN 0 ELSE Head(s) + Sum(Tail(s))

RECURSIVE Flatten(_)
\* map(...).filter(Boolean): the results that are not null, in order.
Flatten(ss) == IF ss = <<>> THEN <<>> ELSE Head(ss) \o Flatten(Tail(ss))

\* Array.prototype.sort((a, b) => key(b) - key(a)): descending by key,
\* elements of equal key in their previous order.  key[i] is the key of s[i].
SortDescending(s, key) ==
  LET n == Len(s)
      pos == [i \in 1..n |->
                1 + Cardinality({j \in 1..n : \/ key[j] > key[i]
                                              \/ key[j] = key[i] /\ j < i})]
  IN [p \in 1..n |-> s[CHOOSE i \in 1..n : pos[i] = p]]

\* Keys with one entry per addition.
KeysRepeated(ks) == ks

\* Object.entries of an object whose keys were added in the order ks: each
\* key once, in the order of its first appearance.
Keys(ks) ==
  LET tagged == [i \in 1..Len(ks) |-> <<i, ks[i]>>]
      first == SelectSeq(tagged, LAMBDA e : \A j \in 1..(e[1] - 1) : ks[j] # e[2])
  IN [i \in 1..Len(first) |-> first[i][2]]

\* allCategories.find((c) => c.id === id): the first match, if any.
find(list, id) ==
  LET m == SelectSeq(list, LAMBDA c : c.id = id)
  IN IF m = <<>> THEN <<>> ELSE <<Head(m)>>

\* useAccountsStore.getState().getAccounts(): the account rows.
allAccounts == accounts

\* listTransactions: .order('transaction_date', { ascending: false }).
listTransactions(rows) ==
  SortDescending(rows, [i \in 1..Len(rows) |-> rows[i].transaction_date])

\* dayjs(date).format("MMMM YYYY"): the month a day falls in.
Month(d) == d \div 2

Dates == 1..2

Months == {Month(d) : d \in Dates}

\* ------------------------------------------------ reporting: fetch
\* lines 168-179
topCategories(txs, cats) ==
  LET ids == [i \in 1..Len(txs) |-> txs[i].category_id]
      ks == Keys(ids)
      cnt == [i \in 1..Len(ks) |->
                Cardinality({j \in 1..Len(txs) : ids[j] = ks[i]})]
      sortedCategoryIds == SortDescending(ks, cnt)
  IN Flatten([i \in 1..Len(ks) |-> find(cats, sortedCategoryIds[i])])

\* lines 181-191
topAccounts(txs, accs) ==
  LET ids == [i \in 1..Len(txs) |-> txs[i].to_account_id]
      ks == Keys(ids)
      tot == [i \in 1..Len(ks) |->
                Sum([j \in 1..Len(txs) |->
                       IF ids[j] = ks[i] THEN txs[j].amount ELSE 0])]
      sortedAccountIds == SortDescending(ks, tot)
      found(id) == LET m == {a \in accs : a.id = id}
                   IN IF m = {} THEN <<>> ELSE <<CHOOSE a \in m : TRUE>>
  IN Flatten([i \in 1..Len(ks) |-> found(sortedAccountIds[i])])

\* lines 195-202.  Object.entries lists the keys that are array indices
\* (non-negative integers) in ascending order before the other keys.
commonAmounts(txs) ==
  LET ams == [i \in 1..Len(txs) |-> txs[i].amount]
      ks == Keys(ams)
      idx == SelectSeq(ks, LAMBDA a : a >= 0)
      ordered == SortDescending(idx, [i \in 1..Len(idx) |-> 0 - idx[i]])
                   \o SelectSeq(ks, LAMBDA a : a < 0)
      cnt == [i \in 1..Len(ordered) |->
                Cardinality({j \in 1..Len(txs) : ams[j] = ordered[i]})]
  IN SortDescending(ordered, cnt)

\* lines 204-211: opening balance per listed row.
openingBalances(rows) ==
  {<<rows[i].id,
     Sum([j \in 1..Len(rows) |->
            IF rows[j].id = rows[i].id
              THEN (IF "opening_balance" \in DOMAIN rows[j]
                      THEN rows[j].opening_balance ELSE 0)
              ELSE 0])>> : i \in 1..Len(rows)}

\* totalBalance with every row added.
totalBalanceUnsigned(txs) ==
  Sum([i \in 1..Len(txs) |-> txs[i].amount])

\* lines 213-215
totalBalance(txs) ==
  Sum([i \in 1..Len(txs) |->
         IF txs[i].entry_type = "INCOME" THEN txs[i].amount ELSE 0 - txs[i].amount])

\* typeTotal over the rows that have a category.
typeTotalCategorised(txs, type) ==
  Sum([i \in 1..Len(txs) |->
         IF txs[i].entry_type = type /\ txs[i].category_id # NullId
           THEN txs[i].amount ELSE 0])

\* lines 217-222
typeTotal(txs, type) ==
  Sum([i \in 1..Len(txs) |->
         IF txs[i].entry_type = type THEN txs[i].amount ELSE 0])

\* sortByDate leaving the oldest first.
sortByDateAscending(txs) ==
  SortDescending(txs, [i \in 1..Len(txs) |-> 0 - txs[i].transaction_date])

\* line 224: transactions.data.sort(...) by transaction_date, in place.
sortByDate(txs) ==
  SortDescending(txs, [i \in 1..Len(txs) |-> txs[i].transaction_date])

RecentLimit == 10

\* line 224: .slice(0, 10)
recentTransactions(sorted) ==
  SubSeq(sorted, 1, IF Len(sorted) < RecentLimit THEN Len(sorted) ELSE RecentLimit)

\* percentageShare with the quotient inverted.
percentageShareInverted(part, total) ==
  IF part > 0 THEN [num |-> total * 100, den |-> part]
  ELSE [num |-> 0, den |-> 1]

\* (part / total) * 100 when total > 0, else 0, as the exact quotient
\* num/den.
percentageShare(part, total) ==
  IF total > 0 THEN [num |-> part * 100, den |-> total]
  ELSE [num |-> 0, den |-> 1]

\* lines 226-248 (type "EXPENSES", total expenseTotal) and 251-273 (type
\* "INCOME", total incomeTotal); the item's expenseTotal/incomeTotal is
\* the field total.
categorySummary(txs, type, cats, total) ==
  LET sel == SelectSeq(txs, LAMBDA t : t.entry_type = type /\ t.category_id # NullId)
      ids == [i \in 1..Len(sel) |-> sel[i].category_id]
      ks == Keys(ids)
      sum(k) == Sum([j \in 1..Len(sel) |-> IF ids[j] = k THEN sel[j].amount ELSE 0])
      item(k) ==
        LET c == find(cats, k)
        IN IF c = <<>> THEN <<>>
           ELSE << [category |-> c[1], total |-> sum(k),
                    transactionCount |-> Cardinality({j \in 1..Len(sel) : ids[j] = k}),
                    percentageShare |-> percentageShare(sum(k), total),
                    trendPercentage |-> 0] >>
      items == Flatten([i \in 1..Len(ks) |-> item(ks[i])])
  IN SortDescending(items, [i \in 1..Len(items) |-> items[i].total])

\* lines 276-284: the month of the latest transaction_date, or the
\* current month when there is no transaction.
periodLabel(txs, now) ==
  IF Len(txs) > 0
    THEN LET max == CHOOSE d \in {txs[i].transaction_date : i \in 1..Len(txs)} :
                      \A i \in 1..Len(txs) : txs[i].transaction_date <= d
         IN <<Month(max)>>
    ELSE <<now>>

\* The state fetch sets (lines 286-299) from the rows it received; sorted
\* is the array after line 224.
aggregate(txs, sorted, cats, accs, now) ==
  LET tc == topCategories(txs, cats)
      ta == topAccounts(txs, accs)
      inc == typeTotal(txs, "INCOME")
      exp == typeTotal(txs, "EXPENSES")
  IN [topCategories |-> tc, topAccounts |-> ta,
      commonAmounts |-> commonAmounts(txs),
      categoriesBalance |-> openingBalances(tc),
      accountsBalance |-> openingBalances(ta),
      totalBalance |-> totalBalance(txs),
      incomeTotal |-> inc, expenseTotal |-> exp,
      recentTransactions |-> recentTransactions(sorted),
      categorySpendingSummary |-> categorySummary(sorted, "EXPENSES", cats, exp),
      categoryIncomeSummary |-> categorySummary(sorted, "INCOME", cats, inc),
      periodLabel |-> periodLabel(sorted, now)]

\* The month the clock shows when fetch reads it (dayjs(), line 283).
CurrentMonths(txs) ==
  IF Len(txs) = 0 THEN Months ELSE {CHOOSE m \in Months : TRUE}

\* useReportingStore.fetch(userId): lines 160-300.
fetch ==
  /\ \E fail \in FailChoices :
       /\ Counted(fail)
       /\ IF fail
            THEN /\ txData' = NoData
                 /\ report' = report
            ELSE LET data == listTransactions(transactions)
                     sorted == sortByDate(data)
                 IN \E now \in CurrentMonths(data) :
                      /\ txData' = [ok |-> TRUE, fetched |-> data, data |-> sorted,
                                  accs |-> allAccounts]
                      /\ report' = aggregate(data, sorted, allCategories,
                                             allAccounts, now)
  /\ UNCHANGED <<bin, app, impl, mode, prefs, accounts, categories, pc, loc, result,
                 hist, last, runs, deletes, addImpl, transactions,
                 allCategories, sub>>

\* ------------------------------------- reporting: the lists explored
Food == <<0, 1>>

Salary == <<0, 2>>

\* A category id no row of the reference list has.
Gone == <<0, 3>>

ReferenceCategories ==
  << CategoryRow(Food, "Food", "EXPENSE"), CategoryRow(Salary, "Salary", "INCOME") >>

Amounts == 0..MaxAmount

\* The day the rows of an import are dated.
ImportDay == CHOOSE d \in Dates : \A e \in Dates : e <= d

\* A row of the user written by an import (added_by IMPORT) before the
\* reporting screen first fetches.  Its rows carry the day of the import.
importTransaction ==
  /\ txData = NoData
  /\ report = initialState
  /\ Len(transactions) < MaxTx
  /\ \E cat \in {NullId, Food, Salary, Gone}, amount \in Amounts,
        type \in EntryTypes :
       transactions' =
         Append(transactions,
                TransactionRow(<<0, Len(transactions) + 1>>, NullId, NullId,
                               cat, amount, ImportDay, type, "IMPORT"))
  /\ UNCHANGED <<bin, app, impl, mode, prefs, accounts, categories, pc, loc, result,
                 hist, last, runs, faults, deletes, addImpl, allCategories,
                 txData, report, sub>>

InitReport ==
  /\ impl = "core"
  /\ mode = "seq"
  /\ prefs = {}
  /\ accounts = {}
  /\ categories = {}
  /\ pc = [p \in Procs |-> "idle"]
  /\ loc = [p \in Procs |-> InitLoc]
  /\ result = [p \in Procs |-> NoResult]
  /\ hist = [p \in Procs |-> InitHist]
  /\ last = NoLast
  /\ runs = 0 /\ faults = MaxFaults /\ deletes = 0
  /\ addImpl = "legs"
  /\ transactions = <<>>
  /\ allCategories = ReferenceCategories
  /\ txData = NoData
  /\ report = initialState
  /\ sub = NoSubmit
  /\ session = TRUE /\ screen = "tabs" /\ caller = "none"
  /\ home = NoHome /\ pending = NoPending
  /\ EmptyBin

NextReport ==
  \/ importTransaction
  \/ fetch

\* The reporting fetch over every list of rows the backend can return.
SpecReport == InitReport /\ [][NextReport]_vars

\* ------------------------------------------------- the write screens
\* The backend errors the calls of one submit may still meet.
Budget == IF mode = "seq" THEN MaxFaults - faults ELSE 0

Fails(fs) == Cardinality({i \in 1..Len(fs) : fs[i]})

\* Which of the n backend calls of one submit fail.
FailVectors(n) == {fs \in [1..n -> BOOLEAN] : Fails(fs) <= Budget}

\* createTransaction: the table with the new row, or unchanged when the
\* insert fails.
createTransaction(rows, fail, from, to, cat, amount, date, type, by) ==
  IF fail THEN rows
  ELSE Append(rows, TransactionRow(<<0, Len(rows) + 1>>, from, to, cat,
                                   amount, date, type, by))

\* updateTransaction: the row of that id with the payload's fields.
updateTransaction(rows, fail, id, from, to, cat, amount, date, type, by) ==
  IF fail THEN rows
  ELSE [i \in 1..Len(rows) |->
          IF rows[i].id = id
            THEN TransactionRow(id, from, to, cat, amount, date, type, by)
            ELSE rows[i]]

\* new Date(): the clock of the write screens shows the latest day.
Today == ImportDay

\* What the user can type into an amount or opening-balance field, as
\* parseFloat reads it.
EnteredAmounts == {0 - 1, 0, 1}

\* The dates the user can pick in the add-transaction screen.
PickedDates == Dates

\* The category the user picks in the add-transaction screen: the first of
\* the list.
PickedCategories == {allCategories[i].id : i \in {1} \cap (1..Len(allCategories))}

Submitted(kind, type, from, to, amount, failed) ==
  [n |-> sub.n + 1, kind |-> kind, before |-> Len(transactions), failed |-> failed,
   type |-> type, from |-> from, to |-> to, amount |-> amount]

\* canSubmit of app/(tabs)/add.tsx.
canSubmit(txType, fromAccountId, toAccountId, amount) ==
  /\ IF txType = "CONTRA"
       THEN fromAccountId # NullId /\ toAccountId # NullId
            /\ fromAccountId # toAccountId
       ELSE IF txType = "INCOME" THEN toAccountId # NullId
       ELSE fromAccountId # NullId
  /\ amount > 0

\* Whether handleSubmit writes the two TRANSFER rows.
WritesLegs(txType) == txType = "CONTRA" /\ addImpl = "legs"

\* add.tsx:170-181: the INCOME row of a transfer.
IncomeLeg(rows, fail, fromId, toId, cat, amount, date) ==
  createTransaction(rows, fail, toId, fromId, cat, amount, date,
                    "INCOME", "TRANSFER")

\* add.tsx:182-193: the EXPENSES row of a transfer.
ExpenseLeg(rows, fail, fromId, toId, cat, amount, date) ==
  createTransaction(rows, fail, fromId, toId, cat, amount, date,
                    "EXPENSES", "TRANSFER")

\* The accounts the add-transaction screen preselects (the defaults of
\* useDefaultAccountsStore); the user keeps them or exchanges them.
SelectableAccounts == Ids(DefaultAccountsOf(prefs))

\* handleSubmit of app/(tabs)/add.tsx, in its two versions.
handleSubmitTransaction ==
  /\ sub.n < MaxSubmits
  /\ \E txType \in {"INCOME", "EXPENSES", "CONTRA"},
        fromAccountId \in SelectableAccounts, toAccountId \in SelectableAccounts,
        amount \in EnteredAmounts, categoryId \in PickedCategories,
        transactionDate \in PickedDates, fs \in FailVectors(3) :
       /\ canSubmit(txType, fromAccountId, toAccountId, amount)
       /\ ~WritesLegs(txType) => ~fs[2] /\ ~fs[3]
       /\ LET fromId == IF txType \in {"CONTRA", "EXPENSES"}
                          THEN fromAccountId ELSE NullId
              toId == IF txType \in {"CONTRA", "INCOME"}
                        THEN toAccountId ELSE NullId
              t1 == createTransaction(transactions, fs[1], fromId, toId,
                                      categoryId, amount, transactionDate,
                                      txType, "MANUAL")
              t2 == IF WritesLegs(txType)
                      THEN IncomeLeg(t1, fs[2], fromId, toId, categoryId,
                                     amount, transactionDate)
                      ELSE t1
              t3 == IF WritesLegs(txType)
                      THEN ExpenseLeg(t2, fs[3], fromId, toId, categoryId,
                                      amount, transactionDate)
                      ELSE t2
          IN /\ transactions' = t3
             /\ faults' = faults + Fails(fs)
             /\ sub' = Submitted("transaction", txType, fromId, toId, amount,
                                 Fails(fs) > 0)
  /\ UNCHANGED <<bin, app, impl, mode, prefs, accounts, categories, pc, loc, result,
                 hist, last, runs, deletes, addImpl, allCategories, txData,
                 report>>

\* preference?.default_income_account_id ?? "" (and the expense one).
DefaultAccountId(field) ==
  IF prefs = {} THEN NullId ELSE ThePref(prefs)[field]

\* categories.find((c) => c.name.toLowerCase() === "other")?.id ?? null
otherCategoryId ==
  LET m == SelectSeq(allCategories, LAMBDA c : c.name = "Other")
  IN IF m = <<>> THEN NullId ELSE Head(m).id

\* The opening-balance row both account screens write: entry type by the
\* sign of the balance, amount the balance itself.
OpeningEntryType(openingBalance) ==
  IF openingBalance < 0 THEN "EXPENSES" ELSE "INCOME"

OpeningToAccount(openingBalance) ==
  IF OpeningEntryType(openingBalance) = "INCOME"
    THEN DefaultAccountId("default_income_account_id")
    ELSE DefaultAccountId("default_expense_account_id")

\* handleSubmit of app/add-account.tsx.
handleSubmitAddAccount ==
  /\ sub.n < MaxSubmits
  /\ \E openingBalance \in EnteredAmounts, fs \in FailVectors(2) :
       /\ openingBalance = 0 => ~fs[2]
       /\ LET id == <<0, sub.n + 1>>
              dataId == IF fs[1] THEN NullId ELSE id
              row == [AccountRow(id, "Wallet", "CASH") EXCEPT
                        !.opening_balance = openingBalance,
                        !.balance = openingBalance]
          IN /\ accounts' = IF fs[1] THEN accounts ELSE insertAccount(accounts, row)
             /\ transactions' =
                  IF openingBalance # 0
                    THEN createTransaction(transactions, fs[2], dataId,
                                           OpeningToAccount(openingBalance),
                                           otherCategoryId, openingBalance, Today,
                                           OpeningEntryType(openingBalance), "AUTO")
                    ELSE transactions
             /\ faults' = faults + Fails(fs)
             /\ sub' = Submitted("addAccount", OpeningEntryType(openingBalance),
                                 dataId, OpeningToAccount(openingBalance),
                                 openingBalance, Fails(fs) > 0)
  /\ UNCHANGED <<bin, app, impl, mode, prefs, categories, pc, loc, result, hist, last,
                 runs, deletes, addImpl, allCategories, txData, report>>

\* handleSubmit of app/edit-account/[id].tsx.
handleSubmitEditAccount ==
  /\ sub.n < MaxSubmits
  /\ \E id \in Ids(accounts), openingBalance \in EnteredAmounts,
        fs \in FailVectors(3) :
       /\ LET dataId == IF fs[1] THEN NullId ELSE id
              findTransaction ==
                IF fs[2] THEN <<>>
                ELSE SelectSeq(listTransactions(transactions),
                               LAMBDA t : t.from_account_id = id /\ t.added_by = "AUTO")
          IN /\ accounts' =
                  IF fs[1] THEN accounts
                  ELSE {IF a.id = id THEN [a EXCEPT !.opening_balance = openingBalance]
                        ELSE a : a \in accounts}
             /\ transactions' =
                  IF findTransaction # <<>>
                    THEN updateTransaction(transactions, fs[3], findTransaction[1].id,
                                           dataId, OpeningToAccount(openingBalance),
                                           otherCategoryId, openingBalance, Today,
                                           OpeningEntryType(openingBalance), "AUTO")
                    ELSE createTransaction(transactions, fs[3], dataId,
                                           OpeningToAccount(openingBalance),
                                           otherCategoryId, openingBalance, Today,
                                           OpeningEntryType(openingBalance), "AUTO")
             /\ faults' = faults + Fails(fs)
             /\ sub' = Submitted("editAccount", OpeningEntryType(openingBalance),
                                 dataId, OpeningToAccount(openingBalance),
                                 openingBalance, Fails(fs) > 0)
  /\ UNCHANGED <<bin, app, impl, mode, prefs, categories, pc, loc, result, hist, last,
                 runs, deletes, addImpl, allCategories, txData, report>>

\* The state a provisioned user of the core version opens the app in.  The
\* screens are explored with a backend that answers every call.
InitLedger ==
  /\ impl = "core"
  /\ mode = "seq"
  /\ prefs = {PreferenceRow(<<1, 1>>, <<1, 2>>, TRUE)}
  /\ accounts = {AccountRow(<<1, k>>, DefaultAccounts("core")[k][1],
                            DefaultAccounts("core")[k][2]) : k \in 1..2}
  /\ categories = {CategoryRow(<<1, i>>, DEFAULT_CATEGORIES_core[i][1],
                               DEFAULT_CATEGORIES_core[i][2])
                     : i \in 1..Len(DEFAULT_CATEGORIES_core)}
  /\ pc = [p \in Procs |-> "idle"]
  /\ loc = [p \in Procs |-> InitLoc]
  /\ result = [p \in Procs |-> NoResult]
  /\ hist = [p \in Procs |-> InitHist]
  /\ last = NoLast
  /\ runs = 1 /\ faults = MaxFaults /\ deletes = 0
  /\ addImpl \in AddImpls
  /\ transactions = <<>>
  /\ allCategories = [i \in 1..Len(DEFAULT_CATEGORIES_core) |->
                        CategoryRow(<<1, i>>, DEFAULT_CATEGORIES_core[i][1],
                                    DEFAULT_CATEGORIES_core[i][2])]
  /\ txData = NoData
  /\ report = initialState
  /\ sub = NoSubmit
  /\ session = TRUE /\ screen = "tabs" /\ caller = "none"
  /\ home = NoHome /\ pending = NoPending
  /\ EmptyBin

NextLedger ==
  \/ handleSubmitTransaction
  \/ handleSubmitAddAccount
  \/ handleSubmitEditAccount
  \/ fetch

\* The write screens and the reporting fetch of a provisioned user.
SpecLedger == InitLedger /\ [][NextLedger]_vars

\* ------------------------------------------------- session and routes
\* listCategories: .order('created_at', { ascending: false }), the rows
\* newest first.  Ids are handed out in creation order.
RECURSIVE listCategories(_)
listCategories(rows) ==
  IF rows = {} THEN <<>>
  ELSE LET newest == CHOOSE r \in rows :
                       \A q \in rows : \/ q.id[1] < r.id[1]
                                       \/ q.id[1] = r.id[1] /\ q.id[2] <= r.id[2]
       IN <<newest>> \o listCategories(rows \ {newest})

\* A caller starts runLoginCheck(userId) and awaits it.
Invoke(p, who) ==
  /\ runs < MaxRuns
  /\ runs' = runs + 1
  /\ pc' = [pc EXCEPT ![p] = "findPref"]
  /\ loc' = [loc EXCEPT ![p] = [InitLoc EXCEPT !.run = runs + 1]]
  /\ result' = [result EXCEPT ![p] = NoResult]
  /\ hist' = [hist EXCEPT ![p] = [InitHist EXCEPT !.run = runs + 1,
                                                   !.start = db, !.prev = last]]
  /\ last' = NoLast
  /\ caller' = who

\* useInitialRoute of app/_layout.tsx up to its call of runLoginCheck:
\* getSession, then findUserPreference (its error is dropped) and the route.
init ==
  /\ screen = "splash" /\ caller = "none"
  /\ IF ~session
       THEN /\ screen' = "onboarding"
            /\ UNCHANGED <<caller, pc, loc, result, hist, last, runs, faults>>
       ELSE \E fail \in FailChoices :
              /\ Counted(fail)
              /\ IF fail \/ prefs = {}
                   THEN /\ screen' = "preferences"
                        /\ UNCHANGED <<caller, pc, loc, result, hist, last, runs>>
                   ELSE /\ Invoke(1, "init")
                        /\ screen' = screen
  /\ UNCHANGED <<bin, ledger, impl, mode, prefs, accounts, categories, deletes,
                 session, home, pending>>

\* useInitialRoute after runLoginCheck has returned: the tabs, whatever the
\* result.
initResume ==
  /\ caller = "init" /\ pc[1] = "done"
  /\ screen' = "tabs"
  /\ caller' = "none"
  /\ UNCHANGED <<bin, ledger, impl, mode, prefs, accounts, categories, pc, loc,
                 result, hist, last, runs, faults, deletes, session, home,
                 pending>>

\* useAuthStore.login up to its call of runLoginCheck: signInWithPassword,
\* and on an error nothing else.
login ==
  /\ screen = "onboarding" /\ caller = "none" /\ ~session
  /\ \E fail \in FailChoices :
       /\ Counted(fail)
       /\ IF fail
            THEN UNCHANGED <<caller, pc, loc, result, hist, last, runs>>
            ELSE Invoke(1, "login")
  /\ UNCHANGED <<bin, ledger, impl, mode, prefs, accounts, categories, deletes,
                 session, screen, home, pending>>

\* useAuthStore.login after runLoginCheck has returned (set({ session })),
\* then handleSignIn of app/(auth)/login.tsx: findUserPreference, whose
\* error is dropped, and the route.
loginResume ==
  /\ caller = "login" /\ pc[1] = "done"
  /\ session' = TRUE
  /\ caller' = "none"
  /\ \E fail \in FailChoices :
       /\ Counted(fail)
       /\ screen' = IF fail \/ prefs = {} THEN "preferences" ELSE "tabs"
  /\ UNCHANGED <<bin, ledger, impl, mode, prefs, accounts, categories, pc, loc,
                 result, hist, last, runs, deletes, home, pending>>

\* What the home screen finds stored when it first loads.
Found ==
  [loaded |-> TRUE,
   migrated |-> prefs # {} /\ ThePref(prefs).migration_completed,
   defaults |-> /\ prefs # {}
                /\ ThePref(prefs).default_income_account_id \in Ids(accounts)
                /\ ThePref(prefs).default_expense_account_id \in Ids(accounts),
   checked |-> \E p \in Procs : pc[p] = "done" /\ hist[p].start.prefs # {}]

\* loadData of the home screen, first part: the fetches of the
\* transactions, categories, accounts and preferences stores.  The reporting
\* fetch follows as its own step.
loadData ==
  /\ screen = "tabs" /\ session /\ ~home.loaded
  /\ \E fail \in FailChoices :
       /\ Counted(fail)
       /\ allCategories' = IF fail THEN <<>> ELSE listCategories(categories)
  /\ home' = Found
  /\ UNCHANGED <<bin, impl, mode, prefs, accounts, categories, pc, loc, result,
                 hist, last, runs, deletes, addImpl, transactions, txData,
                 report, sub, session, screen, caller, pending>>

\* useAuthStore.logout: signOut, the auth store back to its initial state,
\* the default accounts store reset.
logout ==
  /\ session /\ screen = "tabs" /\ caller = "none" /\ home.loaded
  /\ session' = FALSE
  /\ UNCHANGED <<bin, ledger, impl, mode, prefs, accounts, categories, pc, loc,
                 result, hist, last, runs, faults, deletes, screen, caller,
                 home, pending>>

\* The app is closed and opened again: the stores in memory start from
\* their initial states, the persisted session is kept.
restart ==
  /\ caller = "none" /\ Quiescent /\ screen # "splash"
  /\ screen' = "splash"
  /\ home' = NoHome
  /\ pending' = NoPending
  /\ allCategories' = <<>>
  /\ txData' = NoData
  /\ report' = initialState
  /\ UNCHANGED <<bin, impl, mode, prefs, accounts, categories, pc, loc, result,
                 hist, last, runs, faults, deletes, addImpl, transactions,
                 sub, session, caller>>

InitSession ==
  /\ impl \in Impls
  /\ mode = "seq"
  /\ prefs = {}
  /\ accounts = {}
  /\ categories = {}
  /\ pc = [p \in Procs |-> "idle"]
  /\ loc = [p \in Procs |-> InitLoc]
  /\ result = [p \in Procs |-> NoResult]
  /\ hist = [p \in Procs |-> InitHist]
  /\ last = NoLast
  /\ runs = 0 /\ faults = 0 /\ deletes = 0
  /\ addImpl = "legs"
  /\ transactions = <<>>
  /\ allCategories = <<>>
  /\ txData = NoData
  /\ report = initialState
  /\ sub = NoSubmit
  /\ InitApp

NextSession ==
  \/ init
  \/ initResume
  \/ login
  \/ loginResume
  \/ runLoginCheck(1)
  \/ screen = "preferences" /\ handleSave
  \/ loadData
  \/ home.loaded /\ screen = "tabs" /\ session /\ fetch
  \/ logout
  \/ restart

\* A user from the first launch on: sign-in, preferences, home, sign-out
\* and relaunch.
SpecSession == InitSession /\ [][NextSession]_vars

\* ------------------------------------------ overlapping reporting fetches
\* A submit of the add-transaction screen that is a transfer dated today.
submitTransfer ==
  /\ handleSubmitTransaction
  /\ sub'.type = "CONTRA"
  /\ \A i \in 1..Len(transactions') : transactions'[i].transaction_date = Today

\* s without its i-th element.
Remove(s, i) == SubSeq(s, 1, i - 1) \o SubSeq(s, i + 1, Len(s))

\* useReportingStore.fetch up to its await: listTransactions is sent and the
\* backend reads the rows (lines 160-165).
fetchRequest ==
  /\ pending.issued < MaxFetches
  /\ pending' = [pending EXCEPT
                   !.issued = @ + 1,
                   !.queue = Append(@, [n |-> pending.issued + 1,
                                        data |-> listTransactions(transactions)])]
  /\ UNCHANGED <<bin, ledger, impl, mode, prefs, accounts, categories, pc, loc,
                 result, hist, last, runs, faults, deletes, session, screen,
                 caller, home>>

\* fetchResolve dropping an answer older than the one the store shows.
fetchResolveSequenced(i) ==
  /\ i \in 1..Len(pending.queue)
  /\ LET r == pending.queue[i]
         sorted == sortByDate(r.data)
         newer == r.n > pending.last
     IN /\ \E fail \in FailChoices :
             /\ Counted(fail)
             /\ IF fail
                  THEN /\ txData' = NoData
                       /\ report' = report
                       /\ pending' = [pending EXCEPT !.queue = Remove(@, i)]
                  ELSE \E now \in CurrentMonths(r.data) :
                         /\ txData' = IF newer
                                        THEN [ok |-> TRUE, fetched |-> r.data,
                                              data |-> sorted, accs |-> allAccounts]
                                        ELSE txData
                         /\ report' = IF newer
                                        THEN aggregate(r.data, sorted, allCategories,
                                                       allAccounts, now)
                                        ELSE report
                         /\ pending' = [pending EXCEPT
                                          !.queue = Remove(@, i),
                                          !.last = IF newer THEN r.n ELSE @]
  /\ UNCHANGED <<bin, impl, mode, prefs, accounts, categories, pc, loc, result,
                 hist, last, runs, deletes, addImpl, transactions,
                 allCategories, sub, session, screen, caller, home>>

\* useReportingStore.fetch from the answer of listTransactions on (lines
\* 166-300): answers arrive in any order; without data the function
\* returns, otherwise it computes the report and sets the store.
fetchResolve(i) ==
  /\ i \in 1..Len(pending.queue)
  /\ LET r == pending.queue[i]
         sorted == sortByDate(r.data)
     IN /\ \E fail \in FailChoices :
             /\ Counted(fail)
             /\ IF fail
                  THEN /\ txData' = NoData
                       /\ report' = report
                       /\ pending' = [pending EXCEPT !.queue = Remove(@, i)]
                  ELSE \E now \in CurrentMonths(r.data) :
                         /\ txData' = [ok |-> TRUE, fetched |-> r.data,
                                       data |-> sorted, accs |-> allAccounts]
                         /\ report' = aggregate(r.data, sorted, allCategories,
                                                allAccounts, now)
                         /\ pending' = [pending EXCEPT
                                          !.queue = Remove(@, i),
                                          !.last = r.n,
                                          !.stale = r.n < pending.last]
  /\ UNCHANGED <<bin, impl, mode, prefs, accounts, categories, pc, loc, result,
                 hist, last, runs, deletes, addImpl, transactions,
                 allCategories, sub, session, screen, caller, home>>

\* A provisioned user on the home screen, the stores loaded; the backend
\* answers every call.
InitOverlap ==
  /\ impl = "core"
  /\ mode = "seq"
  /\ prefs = {PreferenceRow(<<1, 1>>, <<1, 2>>, TRUE)}
  /\ accounts = {AccountRow(<<1, k>>, DefaultAccounts("core")[k][1],
                            DefaultAccounts("core")[k][2]) : k \in 1..2}
  /\ categories = {CategoryRow(<<1, i>>, DEFAULT_CATEGORIES_core[i][1],
                               DEFAULT_CATEGORIES_core[i][2])
                     : i \in 1..Len(DEFAULT_CATEGORIES_core)}
  /\ pc = [p \in Procs |-> "idle"]
  /\ loc = [p \in Procs |-> InitLoc]
  /\ result = [p \in Procs |-> NoResult]
  /\ hist = [p \in Procs |-> InitHist]
  /\ last = NoLast
  /\ runs = 1 /\ faults = MaxFaults /\ deletes = 0
  /\ addImpl \in AddImpls
  /\ transactions = <<>>
  /\ allCategories = listCategories(categories)
  /\ txData = NoData
  /\ report = initialState
  /\ sub = NoSubmit
  /\ session = TRUE /\ screen = "tabs" /\ caller = "none"
  /\ home = NoHome /\ pending = NoPending
  /\ EmptyBin

NextOverlap ==
  \/ submitTransfer
  \/ fetchRequest
  \/ \E i \in 1..MaxFetches : fetchResolve(i)

\* Reporting fetches in flight while the user makes transfers.
SpecOverlap == InitOverlap /\ [][NextOverlap]_vars

\* ------------------------------------------ the ledger with backend errors
\* A provisioned user whose backend has answered every call so far.
InitUnreliable ==
  /\ impl = "core"
  /\ mode = "seq"
  /\ prefs = {PreferenceRow(<<1, 1>>, <<1, 2>>, TRUE)}
  /\ accounts = {AccountRow(<<1, k>>, DefaultAccounts("core")[k][1],
                            DefaultAccounts("core")[k][2]) : k \in 1..2}
  /\ categories = {CategoryRow(<<1, i>>, DEFAULT_CATEGORIES_core[i][1],
                               DEFAULT_CATEGORIES_core[i][2])
                     : i \in 1..Len(DEFAULT_CATEGORIES_core)}
  /\ pc = [p \in Procs |-> "idle"]
  /\ loc = [p \in Procs |-> InitLoc]
  /\ result = [p \in Procs |-> NoResult]
  /\ hist = [p \in Procs |-> InitHist]
  /\ last = NoLast
  /\ runs = 1 /\ faults = 0 /\ deletes = 0
  /\ addImpl \in AddImpls
  /\ transactions = <<>>
  /\ allCategories = listCategories(categories)
  /\ txData = NoData
  /\ report = initialState
  /\ sub = NoSubmit
  /\ session = TRUE /\ screen = "tabs" /\ caller = "none"
  /\ home = NoHome /\ pending = NoPending
  /\ EmptyBin

NextUnreliable ==
  \/ submitTransfer
  \/ fetch

\* The add-transaction screen and the reporting fetch over a backend that
\* can fail.
SpecUnreliable == InitUnreliable /\ [][NextUnreliable]_vars

\* ------------------------------------------------- archive, then delete
\* The tables deleteAccount, deleteCategory and deleteTransaction work on.
Tables == {"myio_accounts", "myio_categories", "myio_transactions"}

RowsOf(t) ==
  CASE t = "myio_accounts" -> accounts
    [] t = "myio_categories" -> categories
    [] t = "myio_transactions" -> {transactions[i] : i \in 1..Len(transactions)}

\* action of the audit-log entry each delete function writes.
LogActionOf(t) ==
  CASE t = "myio_accounts" -> "DELETE_ACCOUNT"
    [] t = "myio_categories" -> "DELETE_CATEGORY"
    [] t = "myio_transactions" -> "DELETE_TRANSACTION"

\* The rows of table t held in the recycle bin.
ArchivedRows(t) == {d.data : d \in {e \in deleted_records : e.table_name = t}}

\* The ids a screen can pass to a delete function: those of stored rows and,
\* from a list loaded earlier, those of rows deleted since.  Of the
\* categories, the two named Other are represented.
Targets(t) ==
  {r.id : r \in {x \in RowsOf(t) \cup ArchivedRows(t) :
                   t = "myio_categories" => x.name = "Other"}}

\* A screen calls deleteAccount, deleteCategory or deleteTransaction.
deleteCall ==
  /\ del.pc \in {"idle", "done"}
  /\ del.n < MaxRemovals
  /\ \E t \in Tables : \E id \in Targets(t) :
       del' = [NoDelete EXCEPT !.n = del.n + 1, !.pc = "fetch", !.table = t,
                               !.id = id, !.before = RowsOf(t)]
  /\ UNCHANGED <<app, ledger, impl, mode, prefs, accounts, categories, pc, loc,
                 result, hist, last, runs, faults, deletes, deleted_records,
                 activity_logs>>

\* select('*').eq('id', id).maybeSingle(), and the two early returns.
deleteFetch ==
  /\ del.pc = "fetch"
  /\ \E fail \in FailChoices :
       LET row == {r \in RowsOf(del.table) : r.id = del.id} IN
       /\ del' = IF fail THEN [del EXCEPT !.pc = "done", !.error = "fetch"]
                 ELSE IF row = {}
                   THEN [del EXCEPT !.pc = "done", !.error = "not found"]
                 ELSE [del EXCEPT !.pc = "archive", !.row = row]
       /\ faults' = IF fail THEN faults + 1 ELSE faults
  /\ UNCHANGED <<app, ledger, impl, mode, prefs, accounts, categories, pc, loc,
                 result, hist, last, runs, deletes, deleted_records,
                 activity_logs>>

\* The row createDeletedRecord inserts into myio_deleted_records.
DeletedRecord(t, id, row) ==
  [id |-> del.n, table_name |-> t, original_id |-> id, data |-> row]

\* createDeletedRecord that reports no error: the delete goes on whether or
\* not the copy was stored.
createDeletedRecordUnchecked ==
  /\ del.pc = "archive"
  /\ \E fail \in FailChoices :
       /\ deleted_records' =
            IF fail THEN deleted_records
            ELSE deleted_records \cup
                   {DeletedRecord(del.table, del.id, r) : r \in del.row}
       /\ del' = [del EXCEPT !.pc = "delete"]
       /\ faults' = IF fail THEN faults + 1 ELSE faults
  /\ UNCHANGED <<app, ledger, impl, mode, prefs, accounts, categories, pc, loc,
                 result, hist, last, runs, deletes, activity_logs>>

\* createDeletedRecord and `if (deletedErr) return { error: deletedErr }`.
createDeletedRecord ==
  /\ del.pc = "archive"
  /\ \E fail \in FailChoices :
       /\ deleted_records' =
            IF fail THEN deleted_records
            ELSE deleted_records \cup
                   {DeletedRecord(del.table, del.id, r) : r \in del.row}
       /\ del' = IF fail THEN [del EXCEPT !.pc = "done", !.error = "archive"]
                 ELSE [del EXCEPT !.pc = "delete"]
       /\ faults' = IF fail THEN faults + 1 ELSE faults
  /\ UNCHANGED <<app, ledger, impl, mode, prefs, accounts, categories, pc, loc,
                 result, hist, last, runs, deletes, activity_logs>>

\* delete().eq('user_id', userId).eq('id', id), and its early return.
deleteRow ==
  /\ del.pc = "delete"
  /\ \E fail \in FailChoices :
       LET gone(t) == ~fail /\ del.table = t IN
       /\ accounts' = IF gone("myio_accounts")
                        THEN {r \in accounts : r.id # del.id} ELSE accounts
       /\ categories' = IF gone("myio_categories")
                          THEN {r \in categories : r.id # del.id}
                          ELSE categories
       /\ transactions' = IF gone("myio_transactions")
                            THEN SelectSeq(transactions,
                                           LAMBDA r : r.id # del.id)
                            ELSE transactions
       /\ del' = IF fail
                   THEN [del EXCEPT !.pc = "done", !.error = "delete",
                                    !.issued = TRUE]
                   ELSE [del EXCEPT !.pc = "log", !.issued = TRUE]
       /\ faults' = IF fail THEN faults + 1 ELSE faults
  /\ UNCHANGED <<app, impl, mode, prefs, pc, loc, result, hist, last, runs,
                 deletes, addImpl, allCategories, txData, report, sub,
                 deleted_records, activity_logs>>

\* await logActivity(...), whose result is dropped, and return { error: null }.
logActivity ==
  /\ del.pc = "log"
  /\ \E fail \in FailChoices :
       /\ activity_logs' =
            IF fail THEN activity_logs
            ELSE activity_logs \cup
                   {[id |-> del.n, action |-> LogActionOf(del.table),
                     entity_id |-> del.id, old_data |-> del.row]}
       /\ del' = [del EXCEPT !.pc = "done", !.logFailed = fail]
       /\ faults' = IF fail THEN faults + 1 ELSE faults
  /\ UNCHANGED <<app, ledger, impl, mode, prefs, accounts, categories, pc, loc,
                 result, hist, last, runs, deletes, deleted_records>>

\* A provisioned user whose ledger holds one transfer saved on the
\* add-transaction screen.
InitArchive ==
  /\ impl = "core"
  /\ mode = "seq"
  /\ prefs = {PreferenceRow(<<1, 1>>, <<1, 2>>, TRUE)}
  /\ accounts = {AccountRow(<<1, k>>, DefaultAccounts("core")[k][1],
                            DefaultAccounts("core")[k][2]) : k \in 1..2}
  /\ categories = {CategoryRow(<<1, i>>, DEFAULT_CATEGORIES_core[i][1],
                               DEFAULT_CATEGORIES_core[i][2])
                     : i \in 1..Len(DEFAULT_CATEGORIES_core)}
  /\ pc = [p \in Procs |-> "idle"]
  /\ loc = [p \in Procs |-> InitLoc]
  /\ result = [p \in Procs |-> NoResult]
  /\ hist = [p \in Procs |-> InitHist]
  /\ last = NoLast
  /\ runs = 1 /\ faults = 0 /\ deletes = 0
  /\ addImpl = "legs"
  /\ allCategories = listCategories(categories)
  /\ transactions =
       LET cat == Head(allCategories).id
           t1 == createTransaction(<<>>, FALSE, <<1, 2>>, <<1, 1>>, cat, 1,
                                   Today, "CONTRA", "MANUAL")
           t2 == IncomeLeg(t1, FALSE, <<1, 2>>, <<1, 1>>, cat, 1, Today)
       IN ExpenseLeg(t2, FALSE, <<1, 2>>, <<1, 1>>, cat, 1, Today)
  /\ txData = NoData
  /\ report = initialState
  /\ sub = NoSubmit
  /\ session = TRUE /\ screen = "tabs" /\ caller = "none"
  /\ home = NoHome /\ pending = NoPending
  /\ EmptyBin

NextArchive ==
  \/ deleteCall
  \/ deleteFetch
  \/ createDeletedRecord
  \/ deleteRow
  \/ logActivity

\* The three delete functions of lib/db over a backend that can fail.
SpecArchive == InitArchive /\ [][NextArchive]_vars

\* ================================================================ claims
Done(p) == pc[p] = "done"

CountName(rows, n) == Cardinality({a \in rows : a.name = n})

\* C1: when runLoginCheck is run twice in succession with no backend
\* failure in either run and no change to the store in between, the second
\* run issues no createAccount, createCategory or updateUserPreference call,
\* and the account and category counts after it are those after the first.
C1_SecondRunWritesNothing ==
  \A p \in Procs :
    (Done(p) /\ last.valid /\ hist[p].prev.valid /\ hist[p].prev.clean
       /\ ~hist[p].failed)
    => /\ hist[p].writes = 0
       /\ last.nAcc = hist[p].prev.nAcc
       /\ last.nCat = hist[p].prev.nCat

\* C2: a run that found a preference row with migration_completed = false
\* and returns ok returns the stored preference row, which has
\* migration_completed = true and both default-account pointers set to the
\* ids of two different accounts created by this run.
C2_MigrationPostcondition ==
  \A p \in Procs :
    (Done(p) /\ result[p].ok /\ hist[p].branch = "migrate"
       /\ hist[p].start.prefs # {})
    => LET r == ThePref(result[p].preference)
       IN /\ result[p].preference = prefs
          /\ r.migration_completed
          /\ r.default_income_account_id # NullId
          /\ r.default_expense_account_id # NullId
          /\ r.default_income_account_id # r.default_expense_account_id
          /\ {r.default_income_account_id, r.default_expense_account_id}
                \subseteq hist[p].newAccounts

C2_Witness ==
  \E p \in Procs :
    /\ Done(p) /\ result[p].ok /\ hist[p].branch = "migrate"
    /\ hist[p].start.prefs # {}
    /\ ~ThePref(hist[p].start.prefs).migration_completed


\* The preference row an invocation started from, and where its default
\* pointers stood then.
StartPref(p) == ThePref(hist[p].start.prefs)

Resolves(id, rows) == id \in Ids(rows)

Dangles(id, rows) == id # NullId /\ id \notin Ids(rows)

\* C3 as stated: a run for a brand-new user (preference row not migrated,
\* no accounts, no categories) that returns ok returns exactly the default
\* accounts, with zero balances and active, and a category list that has
\* every entry of the default category table with its type.
FreshUserRunOk(p) ==
  /\ Done(p) /\ result[p].ok /\ hist[p].branch = "migrate"
  /\ hist[p].start.prefs # {}
  /\ hist[p].start.accounts = {} /\ hist[p].start.categories = {}

ReturnsDefaultAccounts(p) ==
  LET da == DefaultAccounts(impl) IN
  /\ Cardinality(result[p].accounts) = Len(da)
  /\ \A k \in 1..Len(da) :
       \E a \in result[p].accounts :
         /\ a.id = <<hist[p].run, k>>
         /\ a.name = da[k][1] /\ a.type = da[k][2]
         /\ a.opening_balance = 0 /\ a.balance = 0 /\ a.is_active

HasCategoryEntry(p, i) ==
  LET dc == DEFAULT_CATEGORIES(impl) IN
  \E c \in result[p].categories :
    c.id = <<hist[p].run, i>> /\ c.name = dc[i][1] /\ c.type = dc[i][2]

C3_FreshUserGetsAllDefaults ==
  \A p \in Procs :
    FreshUserRunOk(p)
    => /\ ReturnsDefaultAccounts(p)
       /\ \A i \in 1..Len(DEFAULT_CATEGORIES(impl)) : HasCategoryEntry(p, i)

\* C3 amended: such a run returns exactly the default accounts, and its
\* category list consists of the entries of the default category table
\* whose createCategory call succeeded, each with its configured type;
\* every entry is there when no call of the run failed.
C3_FreshUserGetsCreatedDefaults ==
  \A p \in Procs :
    FreshUserRunOk(p)
    => /\ ReturnsDefaultAccounts(p)
       /\ Ids(result[p].categories) = hist[p].newCategories
       /\ \A i \in 1..Len(DEFAULT_CATEGORIES(impl)) :
            <<hist[p].run, i>> \in hist[p].newCategories => HasCategoryEntry(p, i)
       /\ ~hist[p].failed
            => \A i \in 1..Len(DEFAULT_CATEGORIES(impl)) : HasCategoryEntry(p, i)

C3_Witness ==
  \E p \in Procs :
    /\ FreshUserRunOk(p)
    /\ Cardinality(result[p].categories) = Len(DEFAULT_CATEGORIES(impl))

\* C4: a run without backend failure that starts from a migrated preference
\* whose income pointer references a missing account while the expense
\* pointer resolves creates exactly one account, stores its id in
\* default_income_account_id and leaves default_expense_account_id as it
\* was; and the same with the two pointers exchanged.
C4_SelfHeal ==
  \A p \in Procs :
    (Done(p) /\ hist[p].branch = "migrated" /\ ~hist[p].failed)
    => LET s == StartPref(p)
           rows == hist[p].start.accounts
           r == ThePref(prefs)
       IN /\ (Dangles(s.default_income_account_id, rows)
                /\ Resolves(s.default_expense_account_id, rows))
              => /\ Cardinality(hist[p].newAccounts) = 1
                 /\ r.default_income_account_id \in hist[p].newAccounts
                 /\ r.default_expense_account_id = s.default_expense_account_id
          /\ (Dangles(s.default_expense_account_id, rows)
                /\ Resolves(s.default_income_account_id, rows))
              => /\ Cardinality(hist[p].newAccounts) = 1
                 /\ r.default_expense_account_id \in hist[p].newAccounts
                 /\ r.default_income_account_id = s.default_income_account_id

\* C5: a run that starts from a migrated preference whose two pointers
\* both resolve issues no write and leaves accounts, categories and the
\* preference row as they were.
C5_MigratedResolvedReadsOnly ==
  \A p \in Procs :
    (pc[p] \notin {"idle", "findPref"} /\ hist[p].branch = "migrated"
       /\ Resolves(StartPref(p).default_income_account_id, hist[p].start.accounts)
       /\ Resolves(StartPref(p).default_expense_account_id, hist[p].start.accounts))
    => /\ hist[p].writes = 0
       /\ hist[p].newAccounts = {}
       /\ (~Done(p) \/ last.valid) => db = hist[p].start

\* C6: a run whose preference lookup returns no row and no error returns a
\* failure and issues no write.
C6_NoPreferenceNoWrites ==
  \A p \in Procs :
    (pc[p] \notin {"idle", "findPref"} /\ hist[p].branch # "none"
       /\ hist[p].start.prefs = {})
    => /\ hist[p].writes = 0
       /\ Done(p) => ~result[p].ok
       /\ (~Done(p) \/ last.valid) => db = hist[p].start

\* C7: a not-migrated run in which a createAccount call failed returns a
\* failure, issues no createCategory call and no updateUserPreference call,
\* and leaves the categories and the preference row as they were.
C7_AccountFailureIsFatal ==
  \A p \in Procs :
    hist[p].accFailed
    => /\ pc[p] \in {"createAccount", "done"}
       /\ Done(p) => ~result[p].ok
       /\ hist[p].newCategories = {}
       /\ hist[p].writes <= Len(DefaultAccounts(impl))
       /\ (~Done(p) \/ last.valid)
            => /\ categories = hist[p].start.categories
               /\ prefs = hist[p].start.prefs

C7_Witness ==
  \E p \in Procs :
    /\ Done(p) /\ hist[p].accFailed /\ hist[p].branch = "migrate"
    /\ hist[p].writes = Len(DefaultAccounts(impl))

\* C8: whenever a run returns ok, both default-account pointers of the
\* returned preference are set and each references an account of the
\* returned account list.
C8_OkPointersResolve ==
  \A p \in Procs :
    (Done(p) /\ result[p].ok)
    => LET r == ThePref(result[p].preference)
       IN /\ Resolves(r.default_income_account_id, result[p].accounts)
          /\ Resolves(r.default_expense_account_id, result[p].accounts)

\* C9: invocations are not mutually excluded: a second runLoginCheck can
\* start while one is in flight, and when two invocations that both read
\* migration_completed = false have both created their default accounts,
\* each has created its own, so every default account name exists at least
\* twice.
PastAccounts(p) ==
  /\ pc[p] \in {"createCategory", "setMigrated", "refetch"}
  /\ hist[p].branch = "migrate"

C9_NoMutualExclusion ==
  /\ \A p \in Procs :
       (/\ pc[p] \in {"idle", "done"}
        /\ runs < MaxRuns
        /\ \A q \in Procs : q < p => pc[q] \notin {"idle", "done"})
       => ENABLED Start(p)
  /\ \A p, q \in Procs :
       (p # q /\ PastAccounts(p) /\ PastAccounts(q))
       => /\ hist[p].newAccounts \cap hist[q].newAccounts = {}
          /\ \A k \in 1..Len(DefaultAccounts(impl)) :
               CountName(accounts, DefaultAccounts(impl)[k][1]) >= 2

C9_Witness ==
  \E p, q \in Procs :
    /\ p # q /\ PastAccounts(p) /\ PastAccounts(q)
    /\ loc[p].preference # {} /\ ~ThePref(loc[p].preference).migration_completed
    /\ loc[q].preference # {} /\ ~ThePref(loc[q].preference).migration_completed
    /\ CountName(accounts, "Income") = 2

\* C10: a run that starts while migration_completed is false takes the
\* not-migrated branch whatever accounts exist, and once its createAccount
\* calls have succeeded there is one more account of every default name
\* than when it started (and, when none of its calls failed, as many more
\* categories as the default table has entries): a run that ended before
\* migration_completed was set leaves the next one to duplicate its rows.
C10_MigrationRepeats ==
  \A p \in Procs :
    /\ (pc[p] \notin {"idle", "findPref"} /\ hist[p].branch # "none"
          /\ hist[p].start.prefs # {} /\ ~StartPref(p).migration_completed)
       => hist[p].branch = "migrate"
    /\ PastAccounts(p)
       => /\ \A k \in 1..Len(DefaultAccounts(impl)) :
               CountName(accounts, DefaultAccounts(impl)[k][1])
                 = CountName(hist[p].start.accounts, DefaultAccounts(impl)[k][1]) + 1
          /\ (pc[p] # "createCategory" /\ ~hist[p].failed)
               => Cardinality(categories)
                    = Cardinality(hist[p].start.categories)
                        + Len(DEFAULT_CATEGORIES(impl))

C10_Witness ==
  \E p \in Procs :
    /\ PastAccounts(p) /\ pc[p] = "setMigrated"
    /\ hist[p].start.prefs # {} /\ ~StartPref(p).migration_completed
    /\ CountName(hist[p].start.accounts, "Income") >= 1
    /\ CountName(accounts, "Income") >= 2
    /\ Cardinality(categories) > Len(DEFAULT_CATEGORIES(impl))

\* ---------------------------------------------------- reporting claims
RECURSIVE AmountOver(_, _)
\* The sum of the amounts of the rows of R at the positions in S.
AmountOver(R, S) ==
  IF S = {} THEN 0
  ELSE LET i == CHOOSE j \in S : TRUE
       IN R[i].amount + AmountOver(R, S \ {i})

\* The positions of the rows of R of entry type t.
OfType(R, t) == {i \in 1..Len(R) : R[i].entry_type = t}

\* The positions of the rows of R of entry type t and category id c.
OfTypeAndCategory(R, t, c) ==
  {i \in 1..Len(R) : R[i].entry_type = t /\ R[i].category_id = c}

RECURSIVE FieldSum(_, _)
\* The sum of the field f of the items of a summary.
FieldSum(S, f) == IF S = <<>> THEN 0 ELSE Head(S)[f] + FieldSum(Tail(S), f)

RECURSIVE ShareSum(_)
\* The sum of the numerators of the percentageShare of the items.
ShareSum(S) ==
  IF S = <<>> THEN 0 ELSE Head(S).percentageShare.num + ShareSum(Tail(S))

\* C11: after a reporting fetch, incomeTotal is the sum of the INCOME
\* amounts, expenseTotal the sum of the EXPENSES amounts, and totalBalance
\* the sum of +amount for INCOME and -amount for every other entry type, so
\* totalBalance = incomeTotal - expenseTotal - (ADJUST and CONTRA amounts).
C11_BalanceDerivation ==
  txData.ok =>
    LET R == txData.fetched
        other == AmountOver(R, OfType(R, "ADJUST")) + AmountOver(R, OfType(R, "CONTRA"))
    IN /\ report.incomeTotal = AmountOver(R, OfType(R, "INCOME"))
       /\ report.expenseTotal = AmountOver(R, OfType(R, "EXPENSES"))
       /\ report.totalBalance =
            AmountOver(R, OfType(R, "INCOME"))
              - AmountOver(R, (1..Len(R)) \ OfType(R, "INCOME"))
       /\ report.totalBalance = report.incomeTotal - report.expenseTotal - other

C11_Witness ==
  /\ txData.ok
  /\ \E i, j \in 1..Len(txData.fetched) :
       /\ txData.fetched[i].entry_type = "INCOME"
       /\ txData.fetched[i].amount > 0
       /\ txData.fetched[j].entry_type \in {"ADJUST", "CONTRA"}
       /\ txData.fetched[j].amount > 0
  /\ report.totalBalance = 0

NonNegative(R) == \A i \in 1..Len(R) : R[i].amount >= 0

ShareInBounds(item, total) ==
  /\ item.percentageShare.den > 0
  /\ 0 <= item.percentageShare.num
  /\ item.percentageShare.num <= 100 * item.percentageShare.den
  /\ total = 0 => item.percentageShare.num = 0

\* C12: for a list of non-negative amounts, every item of
\* categorySpendingSummary and of categoryIncomeSummary has
\* 0 <= percentageShare <= 100, and percentageShare 0 when expenseTotal
\* (incomeTotal) is 0.
C12_ShareBound ==
  (txData.ok /\ NonNegative(txData.fetched)) =>
    /\ \A k \in 1..Len(report.categorySpendingSummary) :
         ShareInBounds(report.categorySpendingSummary[k], report.expenseTotal)
    /\ \A k \in 1..Len(report.categoryIncomeSummary) :
         ShareInBounds(report.categoryIncomeSummary[k], report.incomeTotal)

C12_Witness ==
  /\ txData.ok
  /\ \E k \in 1..Len(report.categorySpendingSummary) :
       LET sh == report.categorySpendingSummary[k].percentageShare
       IN 0 < sh.num /\ sh.num < 100 * sh.den

\* C13: when expenseTotal > 0 the percentageShare values of the items of
\* categorySpendingSummary sum to 100, also for lists with EXPENSES rows
\* whose category_id is null or absent from the reference list.
C13_SharesSumTo100 ==
  (txData.ok /\ report.expenseTotal > 0) =>
    ShareSum(report.categorySpendingSummary) = 100 * report.expenseTotal

\* C14: a row whose category_id is null contributes to no item of either
\* summary, neither to a total nor to a transactionCount, while its amount
\* is part of incomeTotal, expenseTotal and totalBalance.
NullRowsApart(S, R, t, total) ==
  LET nulls == OfTypeAndCategory(R, t, NullId)
  IN /\ \A k \in 1..Len(S) : S[k].category.id # NullId
     /\ FieldSum(S, "transactionCount") + Cardinality(nulls)
          <= Cardinality(OfType(R, t))
     /\ FieldSum(S, "total") + AmountOver(R, nulls) <= total
     /\ total = AmountOver(R, OfType(R, t) \ nulls) + AmountOver(R, nulls)

C14_NullCategoryFiltered ==
  txData.ok =>
    LET R == txData.fetched
        nullOther == {i \in 1..Len(R) : /\ R[i].category_id = NullId
                                        /\ R[i].entry_type # "INCOME"}
        rest == {i \in 1..Len(R) : R[i].category_id # NullId}
    IN /\ NullRowsApart(report.categorySpendingSummary, R, "EXPENSES",
                        report.expenseTotal)
       /\ NullRowsApart(report.categoryIncomeSummary, R, "INCOME",
                        report.incomeTotal)
       /\ report.totalBalance =
            AmountOver(R, OfTypeAndCategory(R, "INCOME", NullId))
              - AmountOver(R, nullOther)
              + AmountOver(R, rest \cap OfType(R, "INCOME"))
              - AmountOver(R, rest \ OfType(R, "INCOME"))

C14_Witness ==
  /\ txData.ok
  /\ \E i \in 1..Len(txData.fetched) :
       /\ txData.fetched[i].category_id = NullId
       /\ txData.fetched[i].entry_type = "EXPENSES"
       /\ txData.fetched[i].amount > 0
  /\ Len(report.categorySpendingSummary) = 1
  /\ report.expenseTotal > report.categorySpendingSummary[1].total

\* C15: categorySpendingSummary has exactly one item for each category of
\* the reference list that an EXPENSES row references, with the sum and
\* the number of those rows; a category no row references and a category
\* id absent from the reference list give no item; the items are in
\* descending order of their total.  categoryIncomeSummary is the same over
\* the INCOME rows.
SummaryOf(S, R, t) ==
  /\ \A c \in {allCategories[n] : n \in 1..Len(allCategories)} :
       Cardinality({k \in 1..Len(S) : S[k].category = c})
         = IF OfTypeAndCategory(R, t, c.id) # {} THEN 1 ELSE 0
  /\ \A k \in 1..Len(S) :
       /\ \E n \in 1..Len(allCategories) : S[k].category = allCategories[n]
       /\ S[k].total = AmountOver(R, OfTypeAndCategory(R, t, S[k].category.id))
       /\ S[k].transactionCount
            = Cardinality(OfTypeAndCategory(R, t, S[k].category.id))
  /\ \A k \in 1..(Len(S) - 1) : S[k].total >= S[k + 1].total

C15_SummaryItems ==
  txData.ok =>
    /\ SummaryOf(report.categorySpendingSummary, txData.fetched, "EXPENSES")
    /\ SummaryOf(report.categoryIncomeSummary, txData.fetched, "INCOME")

C15_Witness ==
  /\ txData.ok
  /\ Len(report.categorySpendingSummary) = 2
  /\ report.categorySpendingSummary[1].total
       > report.categorySpendingSummary[2].total
  /\ txData.fetched[1].category_id
       = report.categorySpendingSummary[2].category.id

\* C16: every category in categorySpendingSummary has type EXPENSE and
\* every category in categoryIncomeSummary has type INCOME, whatever the
\* rows reference.
C16_SummariesFilterByType ==
  txData.ok =>
    /\ \A k \in 1..Len(report.categorySpendingSummary) :
         report.categorySpendingSummary[k].category.type = "EXPENSE"
    /\ \A k \in 1..Len(report.categoryIncomeSummary) :
         report.categoryIncomeSummary[k].category.type = "INCOME"

\* ------------------------------------------------- ledger claims
\* A reporting fetch that received the rows, categories and accounts the
\* previous one received.
RefetchOfSameInputs ==
  /\ txData.ok /\ txData'.ok
  /\ txData'.fetched = txData.fetched
  /\ txData'.accs = txData.accs
  /\ allCategories' = allCategories

C18_TransferNetsToZero ==
  [][(/\ sub.kind = "transaction" /\ sub.type = "CONTRA" /\ ~sub.failed
      /\ sub' = sub /\ transactions' = transactions
      /\ txData.ok /\ txData'.ok
      /\ txData.fetched = listTransactions(SubSeq(transactions, 1, sub.before)))
     => report'.totalBalance = report.totalBalance]_vars

\* The rows the last submit appended.
NewRows == SubSeq(transactions, sub.before + 1, Len(transactions))

\* C19: a transfer from S to D of amount A submitted on the add-transaction
\* screen persists the CONTRA row (from S to D) and exactly two rows with
\* added_by TRANSFER and amount A, an INCOME row with to_account_id = D and
\* an EXPENSES row with from_account_id = S; an INCOME or EXPENSES submit
\* persists exactly one row.
C19_TransferExpansion ==
  (sub.kind = "transaction" /\ ~sub.failed /\ addImpl = "legs") =>
    IF sub.type = "CONTRA"
      THEN LET legs == {i \in 1..Len(NewRows) : NewRows[i].added_by = "TRANSFER"}
           IN /\ Len(NewRows) = 3
              /\ \E i \in 1..Len(NewRows) :
                   /\ NewRows[i].entry_type = "CONTRA"
                   /\ NewRows[i].from_account_id = sub.from
                   /\ NewRows[i].to_account_id = sub.to
              /\ Cardinality(legs) = 2
              /\ \A i \in legs : NewRows[i].amount = sub.amount
              /\ \E i \in legs : /\ NewRows[i].entry_type = "INCOME"
                                 /\ NewRows[i].to_account_id = sub.to
              /\ \E i \in legs : /\ NewRows[i].entry_type = "EXPENSES"
                                 /\ NewRows[i].from_account_id = sub.from
      ELSE Len(NewRows) = 1

\* C20: every row written by the add-transaction, add-account and
\* edit-account screens has amount >= 0.
C20_AmountsNonNegative ==
  \A i \in 1..Len(transactions) :
    transactions[i].added_by \in {"MANUAL", "TRANSFER", "AUTO"}
      => transactions[i].amount >= 0

\* ------------------------------------------- claims on ranking and stores
\* How many of the rows R reference category c.
Referencing(R, c) == Cardinality({i \in 1..Len(R) : R[i].category_id = c})

\* Where the category of id c stands in the reference list.
PlaceIn(list, c) == CHOOSE i \in 1..Len(list) : list[i].id = c

\* C21: topCategories lists the categories of the reference list that at
\* least one transaction references, each once, by descending number of
\* referencing transactions, and two categories with equal counts in the
\* order they have in the reference list.
C21_TopCategoriesTieByListOrder ==
  txData.ok =>
    LET T == report.topCategories
        R == txData.fetched
    IN /\ {T[i] : i \in 1..Len(T)} =
            {allCategories[k] : k \in {j \in 1..Len(allCategories) :
                                  Referencing(R, allCategories[j].id) > 0}}
       /\ \A i, j \in 1..Len(T) : i < j =>
            /\ T[i] # T[j]
            /\ Referencing(R, T[i].id) >= Referencing(R, T[j].id)
            /\ Referencing(R, T[i].id) = Referencing(R, T[j].id)
                 => PlaceIn(allCategories, T[i].id) < PlaceIn(allCategories, T[j].id)

\* C22: every ok result of runLoginCheck carries the preference row, the
\* account list and the category list as stored after the run's writes:
\* every account and category the run created, and every one that existed
\* when it started, is in the result.
C22_ReadYourWrites ==
  \A p \in Procs :
    (Done(p) /\ result[p].ok) =>
      /\ result[p].preference = prefs
      /\ hist[p].newAccounts \subseteq Ids(result[p].accounts)
      /\ hist[p].newCategories \subseteq Ids(result[p].categories)
      /\ hist[p].start.accounts \subseteq result[p].accounts
      /\ hist[p].start.categories \subseteq result[p].categories

\* C23: when the home screen first loads in a session without backend
\* errors, runLoginCheck has run in that session with the preference row in
\* place, migration_completed is true and the default accounts exist.
C23_ProvisionedBeforeHome ==
  (home.loaded /\ faults = 0) =>
    home.checked /\ home.migrated /\ home.defaults

\* C24: once logout has completed, the categories store and the reporting
\* store hold their initial states: nothing fetched for the user who signed
\* out is left in memory.
C24_StoresResetOnLogout ==
  (~session /\ home.loaded) =>
    /\ allCategories = <<>>
    /\ report = initialState

\* The totals of a report are 0 and its ranking and summary lists empty.
ZeroAndEmpty(r) ==
  /\ r.totalBalance = 0 /\ r.incomeTotal = 0 /\ r.expenseTotal = 0
  /\ r.topCategories = <<>> /\ r.topAccounts = <<>> /\ r.commonAmounts = <<>>
  /\ r.recentTransactions = <<>>
  /\ r.categorySpendingSummary = <<>> /\ r.categoryIncomeSummary = <<>>

\* C25: after a reporting fetch whose listTransactions returned no data, the
\* totals of the reporting store are 0 and its ranking and summary lists
\* are empty, whatever the store held before.
C25_DegradesToZero ==
  (~txData.ok) => ZeroAndEmpty(report)

\* The answer of the i-th request in flight arrives with data in this step.
AnswerArrives(i) ==
  /\ i <= Len(pending.queue)
  /\ pending'.queue = Remove(pending.queue, i)
  /\ faults' = faults

\* C26: the reporting store has no request sequencing: whenever the answer
\* of a reporting fetch arrives, whether or not a fetch issued later has
\* already set the store, the store's totals and recent list become those
\* computed from that request's rows; the store shows the request that
\* resolved last, not the one issued last.
C26_StaleOverwrite ==
  [][\A i \in 1..MaxFetches :
       AnswerArrives(i) =>
         LET R == pending.queue[i].data
         IN /\ report'.incomeTotal = AmountOver(R, OfType(R, "INCOME"))
            /\ report'.expenseTotal = AmountOver(R, OfType(R, "EXPENSES"))
            /\ report'.totalBalance =
                 AmountOver(R, OfType(R, "INCOME"))
                   - AmountOver(R, (1..Len(R)) \ OfType(R, "INCOME"))
            /\ report'.recentTransactions = R
            /\ pending'.last = pending.queue[i].n]_vars

\* The request issued first resolved last and the store shows its totals,
\* which are not those of the rows now stored.
C26_Witness ==
  /\ pending.queue = <<>>
  /\ pending.stale
  /\ txData.ok
  /\ txData.fetched # listTransactions(transactions)
  /\ report.totalBalance # totalBalance(listTransactions(transactions))

\* The preference row says the migration is completed.
Migrated(ps) == ps # {} /\ ThePref(ps).migration_completed

\* The steps of the not-migrated branch.
MigrateSteps == {"createAccount", "createCategory", "setMigrated"}

\* C27: once the preference row has migration_completed = true, no run of
\* runLoginCheck, save, deletion or backend failure writes it back to
\* false, and no invocation takes or continues the not-migrated branch.
C27_MigrationMonotonic ==
  /\ [](Migrated(prefs) => \A p \in Procs : pc[p] \notin MigrateSteps)
  /\ [][Migrated(prefs) =>
          /\ Migrated(prefs')
          /\ \A p \in Procs : hist'[p].run # hist[p].run
                                => hist'[p].branch # "migrate"
          /\ \A p \in Procs : hist'[p].branch = "migrate"
                                => hist'[p].writes = hist[p].writes]_vars

\* A second run of a migrated user, after a deletion and a backend error.
C27_Witness ==
  /\ Migrated(prefs)
  /\ runs >= 2 /\ deletes >= 1 /\ faults >= 1
  /\ \E p \in Procs : Done(p) /\ hist[p].branch = "migrated" /\ hist[p].failed

\* C28: in the migrated branch a replacement account is created, and the
\* pointer changed, only for a default pointer whose account is absent: a
\* run that found both referenced accounts stored creates no account and
\* leaves the preference row as it was.
C28_ReplacementOnlyWhenAbsent ==
  \A p \in Procs :
    hist[p].branch = "migrated" =>
      LET sp == StartPref(p)
          rows == hist[p].start.accounts
      IN /\ <<hist[p].run, 1>> \in hist[p].newAccounts
              => Dangles(sp.default_income_account_id, rows)
         /\ <<hist[p].run, 2>> \in hist[p].newAccounts
              => Dangles(sp.default_expense_account_id, rows)
         /\ (/\ ~Dangles(sp.default_income_account_id, rows)
             /\ ~Dangles(sp.default_expense_account_id, rows))
              => prefs = hist[p].start.prefs

\* C29: a transfer submit on the add-transaction screen is all-or-nothing
\* with respect to its CONTRA row: when the CONTRA row was not created,
\* neither TRANSFER leg is stored, so one transfer submit persists either no
\* row or three.
C29_TransferAllOrNothing ==
  (sub.kind = "transaction" /\ sub.type = "CONTRA" /\ addImpl = "legs") =>
    /\ (\A i \in 1..Len(NewRows) : NewRows[i].entry_type # "CONTRA")
         => NewRows = <<>>
    /\ Len(NewRows) \in {0, 3}

\* The delete call was given an id no row of its table had.
NotFound == {r \in del.before : r.id = del.id} = {}

\* The delete call stored no archival copy.
NoCopy == \A d \in deleted_records : d.id # del.n

\* C30: deleteAccount, deleteCategory and deleteTransaction remove a row only
\* when its copy is already in deleted_records, and copies stay there, so
\* every removed row has an archival copy; a call whose row is not found or
\* whose archival copy was not written returns an error, issues no delete
\* and leaves the table as it was; a call whose audit-log write failed
\* after the delete still returns success.
C30_ArchiveBeforeDelete ==
  /\ [][/\ \A t \in Tables : \A r \in RowsOf(t) :
              r \notin RowsOf(t)' => r \in ArchivedRows(t)
        /\ deleted_records \subseteq deleted_records']_vars
  /\ []((del.pc = "done" /\ (NotFound \/ NoCopy))
          => /\ del.error # "none"
             /\ ~del.issued
             /\ RowsOf(del.table) = del.before)
  /\ []((del.pc = "done" /\ del.logFailed) => del.error = "none")

\* A delete that archived and removed its row, and whose audit-log write
\* failed, has returned.
C30_Witness ==
  /\ del.pc = "done" /\ del.error = "none" /\ del.logFailed
  /\ del.row # {}
  /\ del.row \cap RowsOf(del.table) = {}
  /\ del.row \subseteq ArchivedRows(del.table)

====
